---- MODULE Spec2Model ----
(***************************************************************************)
(* State-machine model of TerminalHoverEditorPositioning                   *)
(* (src/src/terminal-hover-editor-positioning.ts): the process-wide        *)
(* batched positioner (scheduleSharedUpdate / sharedUpdate), the per-panel *)
(* registration made by pinHoverEditorToNode (its closures pollForDrag,    *)
(* the observers and the closure cleanup) and the class methods cleanup    *)
(* and cleanupAll.                                                         *)
(*                                                                         *)
(* Numbers are exact rationals <<numerator, denominator>>.  Every zoom of  *)
(* the model is a power of two, for which IEEE-754 division and            *)
(* multiplication are exact, so rational arithmetic computes what the      *)
(* JavaScript numbers compute.                                             *)
(***************************************************************************)
EXTENDS Integers, Sequences, FiniteSets, TLC

(***************************************************************************)
(* Bounds of the model                                                     *)
(***************************************************************************)
\* total number of pinHoverEditorToNode calls in a behaviour
MaxPins == 2
\* total number of geometry changes made by the environment in a behaviour of GeoSpec
MaxGeoChanges == 2
\* total number of graph changes (zoom, node position) in a behaviour of Spec
MaxGraphChanges == 1
\* the count of schedule requests of one batch saturates here
MaxReqs == 2

(***************************************************************************)
(* Program constants                                                       *)
(***************************************************************************)
\* const threshold = 2 (pollForDrag)
threshold == 2
\* if (now - lastRectUpdate > 300) (getContainerRect)
CacheStaleMs == 300
\* window.setInterval(pollForDrag, 200)
DragPollMs == 200

(***************************************************************************)
(* Rational arithmetic                                                     *)
(***************************************************************************)
Abs(n) == IF n < 0 THEN -n ELSE n

RECURSIVE GCD(_, _)
GCD(a, b) == IF b = 0 THEN a ELSE GCD(b, a % b)

\* the normal form of n/d, d > 0
Rat(n, d) == LET g == GCD(Abs(n), d) IN <<n \div g, d \div g>>

R(n) == <<n, 1>>

RAdd(a, b) == Rat(a[1] * b[2] + b[1] * a[2], a[2] * b[2])
RSub(a, b) == Rat(a[1] * b[2] - b[1] * a[2], a[2] * b[2])
RMul(a, b) == Rat(a[1] * b[1], a[2] * b[2])
\* b > 0 (a zoom)
RDiv(a, b) == Rat(a[1] * b[2], a[2] * b[1])
\* Math.abs(a) > t for an integer t
RAbsGt(a, t) == Abs(a[1]) > t * a[2]

Pt(x, y) == [x |-> R(x), y |-> R(y)]

\* Math.round of a rational (offsetWidth and offsetHeight are integers)
RRound(a) == R((2 * a[1] + a[2]) \div (2 * a[2]))

Min(a, b) == IF a < b THEN a ELSE b

(***************************************************************************)
(* The inputs the environment draws from                                   *)
(***************************************************************************)
\* the constructed TerminalHoverEditorPositioning objects, in construction order
Instances == {1, 2}
TerminalIds == {"t1", "t2"}
Nodes == {"n1"}
Els == {"e1", "e2"}
Zooms == {R(1), R(2)}
Pans == {Pt(0, 0), Pt(8, 4)}
NodePositions == {Pt(50, 50), Pt(60, 44)}
ContainerRects == {[left |-> R(0), top |-> R(0)], [left |-> R(10), top |-> R(6)]}
DragTargets == {Pt(100, 71), Pt(61, 71)}
ResizeTargets == {[width |-> R(50), height |-> R(24)]}

\* trackingMap.get(id) of an id that is not tracked
NoReg == 0

VARIABLES
    \* ---- program state ----
    trackingMap,    \* per instance: terminalId -> registration (NoReg: absent)
    regs,           \* the registrations (closures of pinHoverEditorToNode) made so far
    live,           \* the live listeners, observers and interval timers, by kind
    roQueue,        \* size-change observers with an undelivered notification
    updatePending,  \* static updatePending
    sharedRAFId,    \* static sharedRAFId
    rafCallbacks,   \* frame callbacks registered with requestAnimationFrame, not yet run
    \* ---- the graph view, the container and the DOM ----
    zoom, pan, nodePos, containerRect, els,
    \* ---- history variables (written, never read by the program) ----
    geoChanges,     \* geometry changes made by the environment so far
    reqs,           \* schedule requests since the last frame callback ran (saturating)
    reqInsts,       \* the instances whose panels made them
    midCycle,       \* registrations torn down since the pending pass was requested
    pass,           \* what the batched pass did, in the state it leaves
    tick,           \* what the detector tick did, in the state it leaves
    drag            \* the external move being followed

progVars == <<trackingMap, regs, live, roQueue>>
schedVars == <<updatePending, sharedRAFId, rafCallbacks>>
geoVars == <<zoom, pan, nodePos, containerRect>>
reqVars == <<reqs, reqInsts>>
vars == <<trackingMap, regs, live, roQueue, updatePending, sharedRAFId, rafCallbacks,
          zoom, pan, nodePos, containerRect, els,
          geoChanges, reqs, reqInsts, midCycle, pass, tick, drag>>

(***************************************************************************)
(* Unit converter                                                          *)
(***************************************************************************)
screenToGraph(screenValue, z) == RDiv(screenValue, z)

graphToScreen(graphValue, z) == RMul(graphValue, z)

(***************************************************************************)
(* The collaborators: cytoscape and the DOM                                *)
(***************************************************************************)
\* node.renderedBoundingBox(): container-relative, model position * zoom + pan
renderedBoundingBox(n) ==
    [x1 |-> RAdd(RMul(nodePos[n].x, zoom), pan.x),
     y1 |-> RAdd(RMul(nodePos[n].y, zoom), pan.y)]

\* element.style.left / style.top: "" until something sets it
Unset == "unset"
StyleLeft(e) == [set |-> els[e].setBy # Unset, px |-> els[e].left]
StyleTop(e) == [set |-> els[e].setBy # Unset, px |-> els[e].top]

\* parseFloat(s) || 0: the empty string parses to NaN, which || turns into 0
ParsePx(s) == IF s.set THEN s.px ELSE R(0)

\* clearInterval(handle): a handle that names no timer clears nothing
Undefined == 0
clearInterval(timers, handle) == timers \ {handle}

NoLive ==
    [viewport |-> {}, position |-> {}, resize |-> {}, mutation |-> {},
     containerResize |-> {}, windowResize |-> {}, interval |-> {}]

Kinds == DOMAIN NoLive

\* every live listener, observer and timer of registration r
LiveOf(L, r) == {k \in Kinds : r \in L[k]}

\* the registrations some instance tracks
TrackedRegs == {trackingMap[i][id] : i \in Instances, id \in TerminalIds} \ {NoReg}

\* the registration that tracks element e, if any
TrackerOf(e) == {r \in TrackedRegs : regs[r].el = e}

(***************************************************************************)
(* Initial state: both instances constructed, nothing pinned               *)
(***************************************************************************)
NoPass == [ran |-> FALSE, log |-> <<>>, editors |-> {}, writes |-> {},
           served |-> 0, insts |-> {}, removed |-> {}]

NoTick == [reg |-> NoReg, changed |-> FALSE, setBy |-> ""]

NoDrag == [phase |-> "none", el |-> "", x |-> R(0), y |-> R(0)]

InitEls ==
    [e \in Els |->
        IF e = "e1"
        THEN [inDoc |-> TRUE, position |-> "", left |-> R(60), top |-> R(70),
              width |-> R(40), height |-> R(20), zIndex |-> "", setBy |-> Unset]
        ELSE [inDoc |-> TRUE, position |-> "fixed", left |-> R(30), top |-> R(80),
              width |-> R(40), height |-> R(20), zIndex |-> "", setBy |-> "external"]]

Init ==
    /\ trackingMap = [i \in Instances |-> [id \in TerminalIds |-> NoReg]]
    /\ regs = <<>>
    /\ live = NoLive
    /\ roQueue = {}
    /\ updatePending = FALSE
    /\ sharedRAFId = "null"
    /\ rafCallbacks = 0
    /\ zoom = R(1)
    /\ pan = Pt(0, 0)
    /\ nodePos = [n \in Nodes |-> Pt(50, 50)]
    /\ containerRect = [left |-> R(0), top |-> R(0)]
    /\ els = InitEls
    /\ geoChanges = 0
    /\ reqs = 0
    /\ reqInsts = {}
    /\ midCycle = {}
    /\ pass = NoPass
    /\ tick = NoTick
    /\ drag = NoDrag

(***************************************************************************)
(* Batched positioner                                                      *)
(***************************************************************************)
\* scheduleSharedUpdate's guard: a frame callback is registered only when none is pending
SchedRegistersAlways(pending) == TRUE

SchedRegistersNever(pending) == FALSE

SchedRegisters(pending) == ~pending

\* the frame callbacks n consecutive scheduleSharedUpdate calls register
RegisteredPerRequest(n) == n

Registered(n) ==
    IF n = 0 THEN 0
    ELSE (IF SchedRegisters(updatePending) THEN 1 ELSE 0)
         + (n - 1) * (IF SchedRegisters(TRUE) THEN 1 ELSE 0)

\* n scheduleSharedUpdate calls made by handlers of panels of the instances insts
scheduleSharedUpdate(n, insts) ==
    /\ updatePending' = (updatePending \/ n > 0)
    /\ rafCallbacks' = rafCallbacks + Registered(n)
    /\ sharedRAFId' = IF Registered(n) > 0 THEN "handle" ELSE sharedRAFId
    /\ reqs' = Min(reqs + n, MaxReqs)
    /\ reqInsts' = reqInsts \cup insts

\* sharedUpdate, lines 131-136: the editors of every instance's trackingMap, read when
\* the pass runs
EditorsOf(i) == {trackingMap[i][id] : id \in TerminalIds} \ {NoReg}

AllEditorsFirstInstance == EditorsOf(1)

AllEditorsEverPinned == 1..Len(regs)

AllEditors == UNION {EditorsOf(i) : i \in Instances}

\* sharedUpdate, lines 159-172: the target of one editor at zoom z, container rect c
UpdateAtPinZoom(r, z, c) ==
    LET box == renderedBoundingBox(regs[r].node)
        pz == regs[r].pinZoom
    IN [popoverEl |-> regs[r].el,
        x |-> RAdd(RAdd(c.left, box.x1), graphToScreen(regs[r].state.offsetX, pz)),
        y |-> RAdd(RAdd(c.top, box.y1), graphToScreen(regs[r].state.offsetY, pz)),
        width |-> graphToScreen(regs[r].state.width, pz),
        height |-> graphToScreen(regs[r].state.height, pz)]

Update(r, z, c) ==
    LET box == renderedBoundingBox(regs[r].node)
        nodeViewportX == RAdd(c.left, box.x1)
        nodeViewportY == RAdd(c.top, box.y1)
    IN [popoverEl |-> regs[r].el,
        x |-> RAdd(nodeViewportX, graphToScreen(regs[r].state.offsetX, z)),
        y |-> RAdd(nodeViewportY, graphToScreen(regs[r].state.offsetY, z)),
        width |-> graphToScreen(regs[r].state.width, z),
        height |-> graphToScreen(regs[r].state.height, z)]

\* sharedUpdate, lines 176-183: the writes of one update to its element
Written(el, u) ==
    [el EXCEPT !.position = "fixed", !.left = u.x, !.top = u.y,
               !.width = u.width, !.height = u.height, !.zIndex = "1000",
               !.setBy = "positioner"]

\* the editors in the order sharedUpdate visits them: instance by instance, each
\* trackingMap in insertion order
RECURSIVE InOrder(_)
InOrder(rs) ==
    IF rs = {} THEN <<>>
    ELSE LET r == CHOOSE x \in rs :
                    \A y \in rs : <<regs[x].inst, x>> = <<regs[y].inst, y>>
                                   \/ regs[x].inst < regs[y].inst
                                   \/ (regs[x].inst = regs[y].inst /\ x < y)
         IN <<r>> \o InOrder(rs \ {r})

\* the geometry reads and style writes of updatePosition for each editor in turn
PassEventsPerEditor(allEditors) ==
    LET RECURSIVE Each(_)
        Each(q) == IF q = <<>> THEN <<>>
                   ELSE <<[op |-> "read", of |-> "zoom"], [op |-> "read", of |-> "container"],
                          [op |-> "read", of |-> regs[Head(q)].node],
                          [op |-> "write", of |-> regs[Head(q)].el]>> \o Each(Tail(q))
    IN Each(InOrder(allEditors))

\* the geometry reads and style writes of sharedUpdate, in program order: nothing
\* when no editor is tracked (138-141), else zoom and container rectangle
\* (146-147), every node's bounding box (158-173), then every write (176-183)
PassEvents(allEditors) ==
    LET q == InOrder(allEditors)
    IN IF q = <<>> THEN <<>>
       ELSE <<[op |-> "read", of |-> "zoom"], [op |-> "read", of |-> "container"]>>
            \o [k \in 1..Len(q) |-> [op |-> "read", of |-> regs[q[k]].node]]
            \o [k \in 1..Len(q) |-> [op |-> "write", of |-> regs[q[k]].el]]

\* the phases of a pass: its events with runs of the same operation merged
RECURSIVE Phases(_)
Phases(ev) ==
    IF ev = <<>> THEN <<>>
    ELSE LET rest == Phases(Tail(ev))
         IN IF rest # <<>> /\ Head(rest) = Head(ev).op THEN rest
            ELSE <<Head(ev).op>> \o rest

\* updatePending when sharedUpdate returns (lines 139 and 185)
PendingAfterPassKeptWhenEmpty(allEditors) == allEditors = {}

PendingAfterPass(allEditors) == FALSE

\* the history of a pass; a followed external move is judged by the pass after its tick
DragAfterPass(newEls) ==
    IF drag.phase = "ticked"
    THEN [drag EXCEPT !.phase =
            IF newEls[drag.el].left = drag.x /\ newEls[drag.el].top = drag.y
            THEN "reproduced" ELSE "snapback"]
    ELSE drag

\* the size-change observer's callback, lines 307-313, for the registrations rs
\* (the element has no padding or border: its content rectangle is its style size)
resizeObserverAdjusted(rs, obs, newEls) ==
    [r \in DOMAIN rs |->
        IF r \in obs
        THEN [rs[r] EXCEPT
                !.state.width = screenToGraph(newEls[rs[r].el].width, zoom),
                !.state.height =
                    screenToGraph(RMul(newEls[rs[r].el].height, <<3, 2>>), zoom)]
        ELSE rs[r]]

resizeObserver(rs, obs, newEls) ==
    [r \in DOMAIN rs |->
        IF r \in obs
        THEN [rs[r] EXCEPT !.state.width = screenToGraph(newEls[rs[r].el].width, zoom),
                           !.state.height = screenToGraph(newEls[rs[r].el].height, zoom)]
        ELSE rs[r]]

\* One rendering step of the host: the frame callback registered by
\* scheduleSharedUpdate runs sharedUpdate(), the layout is recomputed, and the
\* size-change observers are told of the sizes that changed and of the elements
\* newly observed (the host delivers these in the same step, after the frame
\* callbacks and before any other task).
sharedUpdate ==
    /\ rafCallbacks > 0
    /\ LET allEditors == AllEditors
           \* READ PHASE
           z == zoom
           rect == containerRect
           updates == [r \in allEditors |-> Update(r, z, rect)]
           \* WRITE PHASE
           newEls == [e \in Els |->
                        IF \E r \in allEditors : updates[r].popoverEl = e
                        THEN Written(els[e],
                                 updates[CHOOSE r \in allEditors : updates[r].popoverEl = e])
                        ELSE els[e]]
           resized == {r \in live.resize :
                          \/ newEls[regs[r].el].width # els[regs[r].el].width
                          \/ newEls[regs[r].el].height # els[regs[r].el].height}
       IN /\ rafCallbacks' = rafCallbacks - 1
          /\ updatePending' = PendingAfterPass(allEditors)
          /\ els' = newEls
          /\ regs' = resizeObserver(regs, roQueue \cup resized, newEls)
          /\ roQueue' = {}
          /\ pass' = [ran |-> TRUE,
                      log |-> Phases(PassEvents(allEditors)),
                      editors |-> allEditors,
                      writes |-> {updates[r].popoverEl : r \in allEditors},
                      served |-> reqs, insts |-> reqInsts, removed |-> midCycle]
          /\ drag' = DragAfterPass(newEls)
    /\ reqs' = 0
    /\ reqInsts' = {}
    /\ midCycle' = {}
    /\ tick' = NoTick
    /\ UNCHANGED <<trackingMap, live, sharedRAFId, geoVars, geoChanges>>

(***************************************************************************)
(* Lifecycle tracker                                                       *)
(***************************************************************************)
\* cleanup(terminalId), lines 378-384: every listener, observer and the timer of the
\* tracked editor r are removed
cleanupKeepsInterval(L, r) ==
    [k \in Kinds |-> IF k = "interval" THEN L[k] ELSE L[k] \ {r}]

cleanup(L, r) ==
    [k \in Kinds |->
        IF k = "interval" THEN clearInterval(L[k], regs[r].dragPollInterval)
        ELSE L[k] \ {r}]

\* the closure cleanup of pinHoverEditorToNode, lines 321-330: the same, but
\* clearInterval is given the closure's own dragPollInterval (line 206), which is
\* never assigned
closureCleanup(L, r) ==
    [k \in Kinds |->
        IF k = "interval" THEN clearInterval(L[k], regs[r].localDragPollInterval)
        ELSE L[k] \ {r}]

\* pinHoverEditorToNode, lines 201-203: an id that is tracked is cleaned up first
PinTeardownSkipped(L, old) == L

PinTeardown(L, old) == IF old # NoReg THEN cleanup(L, old) ELSE L

\* pinHoverEditorToNode, lines 227-247: the initial state
InitialStateHeightAsIs(e, cached, box, z) ==
    [offsetX |-> screenToGraph(RSub(els[e].left, RAdd(cached.left, box.x1)), z),
     offsetY |-> screenToGraph(RSub(els[e].top, RAdd(cached.top, box.y1)), z),
     width |-> screenToGraph(RRound(els[e].width), z),
     height |-> screenToGraph(RRound(els[e].height), z)]

InitialState(e, cached, box, z) ==
    LET nodeViewportX == RAdd(cached.left, box.x1)
        nodeViewportY == RAdd(cached.top, box.y1)
        initialScreenOffsetX == RSub(els[e].left, nodeViewportX)
        initialScreenOffsetY == RSub(els[e].top, nodeViewportY)
        offsetWidth == RRound(els[e].width)
        offsetHeight == RRound(els[e].height)
        adjustedHeight == RMul(offsetHeight, <<3, 2>>)
    IN [offsetX |-> screenToGraph(initialScreenOffsetX, z),
        offsetY |-> screenToGraph(initialScreenOffsetY, z),
        width |-> screenToGraph(offsetWidth, z),
        height |-> screenToGraph(adjustedHeight, z)]

\* history: the handler that ran is neither a pass nor a tick
Other == pass' = NoPass /\ tick' = NoTick

\* registrations torn down while a pass is pending
MidCycleAfter(gone) == IF updatePending THEN midCycle \cup gone ELSE {}

\* history: the registrations in gone were torn down by the given path
TornDown(rs, gone, by) ==
    [r \in DOMAIN rs |-> IF r \in gone THEN [rs[r] EXCEPT !.tornDownBy = by] ELSE rs[r]]

DragWithout(gone) ==
    IF drag.phase \in {"set", "ticked"} /\ \E r \in gone : regs[r].el = drag.el
    THEN NoDrag ELSE drag

pinHoverEditorToNode(i, terminalId, n, e) ==
    /\ Len(regs) < MaxPins
    /\ LET old == trackingMap[i][terminalId]
           gone == {old} \ {NoReg}
           r == Len(regs) + 1
           cachedContainerRect == containerRect
           box == renderedBoundingBox(n)
           L0 == PinTeardown(live, old)
           rec == [inst |-> i, id |-> terminalId, node |-> n, el |-> e,
                   state |-> InitialState(e, cachedContainerRect, box, zoom),
                   cachedContainerRect |-> cachedContainerRect,
                   rectAge |-> 0,
                   dragPollInterval |-> r,
                   localDragPollInterval |-> Undefined,
                   tornDownBy |-> "",
                   pinZoom |-> zoom,
                   pinOffX |-> RSub(els[e].left, RAdd(cachedContainerRect.left, box.x1)),
                   pinOffY |-> RSub(els[e].top, RAdd(cachedContainerRect.top, box.y1)),
                   disturbed |-> FALSE,
                   pinLeft |-> els[e].left,
                   pinTop |-> els[e].top,
                   pinWidth |-> InitialState(e, cachedContainerRect, box, zoom).width,
                   pinHeight |-> InitialState(e, cachedContainerRect, box, zoom).height,
                   pinGeo |-> geoChanges,
                   extResized |-> FALSE]
       IN /\ regs' = Append(TornDown(regs, gone, "cleanup"), rec)
          /\ trackingMap' = [trackingMap EXCEPT ![i][terminalId] = r]
          /\ live' = [k \in Kinds |-> L0[k] \cup {r}]
          /\ roQueue' = (roQueue \cap L0.resize) \cup {r}
          /\ midCycle' = MidCycleAfter(gone)
          /\ drag' = DragWithout(gone)
          /\ Other
    /\ scheduleSharedUpdate(1, {i})
    /\ UNCHANGED <<geoVars, els, geoChanges>>

\* cleanup(terminalId), line 375: this.trackingMap.get(terminalId)
trackedEditorOfAnyInstance(i, terminalId) ==
    IF \E j \in Instances : trackingMap[j][terminalId] # NoReg
    THEN trackingMap[CHOOSE j \in Instances : trackingMap[j][terminalId] # NoReg][terminalId]
    ELSE NoReg

trackedEditor(i, terminalId) == trackingMap[i][terminalId]

\* cleanup(terminalId), lines 374-387
Unpin(i, terminalId) ==
    LET r == trackedEditor(i, terminalId)
        gone == {r} \ {NoReg}
    IN /\ live' = (IF r # NoReg THEN cleanup(live, r) ELSE live)
       /\ roQueue' = roQueue \cap live'.resize
       /\ trackingMap' = [trackingMap EXCEPT ![i][terminalId] = NoReg]
       /\ regs' = TornDown(regs, gone, "cleanup")
       /\ midCycle' = MidCycleAfter(gone)
       /\ drag' = DragWithout(gone)
       /\ Other
       /\ UNCHANGED <<schedVars, geoVars, els, geoChanges, reqVars>>

\* cleanupAll, line 391: cleanup of every id of the map
cleanupEachButLast(L, rs) ==
    LET RECURSIVE Go(_, _)
        Go(M, q) == IF Len(q) <= 1 THEN M ELSE Go(cleanup(M, Head(q)), Tail(q))
    IN Go(L, InOrder(rs))

RECURSIVE cleanupEach(_, _)
cleanupEach(L, rs) ==
    IF rs = {} THEN L
    ELSE LET r == CHOOSE x \in rs : TRUE IN cleanupEach(cleanup(L, r), rs \ {r})

\* cleanupAll(), lines 389-392
UnpinAll(i) ==
    LET gone == {trackingMap[i][id] : id \in TerminalIds} \ {NoReg}
    IN /\ live' = cleanupEach(live, gone)
       /\ roQueue' = roQueue \cap live'.resize
       /\ trackingMap' = [trackingMap EXCEPT ![i] = [id \in TerminalIds |-> NoReg]]
       /\ regs' = TornDown(regs, gone, "cleanup")
       /\ midCycle' = MidCycleAfter(gone)
       /\ drag' = DragWithout(gone)
       /\ Other
       /\ UNCHANGED <<schedVars, geoVars, els, geoChanges, reqVars>>

\* getContainerRect, lines 215-222: the cached rectangle, re-read when it is older
\* than the staleness window
getContainerRect(r) ==
    IF regs[r].rectAge > CacheStaleMs THEN containerRect ELSE regs[r].cachedContainerRect

\* pollForDrag, lines 300-303: the divergence folded into the offset
FoldPerAxis(state, dx, dy, z) ==
    [state EXCEPT
        !.offsetX = IF RAbsGt(dx, threshold) THEN RAdd(@, screenToGraph(dx, z)) ELSE @,
        !.offsetY = IF RAbsGt(dy, threshold) THEN RAdd(@, screenToGraph(dy, z)) ELSE @]

Fold(state, dx, dy, z) ==
    IF RAbsGt(dx, threshold) \/ RAbsGt(dy, threshold)
    THEN [state EXCEPT !.offsetX = RAdd(@, screenToGraph(dx, z)),
                       !.offsetY = RAdd(@, screenToGraph(dy, z))]
    ELSE state

\* pollForDrag, lines 284-304: the state after one detector tick
pollForDrag(r) ==
    LET z == zoom
        rect == getContainerRect(r)
        box == renderedBoundingBox(regs[r].node)
        nodeViewportX == RAdd(rect.left, box.x1)
        nodeViewportY == RAdd(rect.top, box.y1)
        expectedX == RAdd(nodeViewportX, graphToScreen(regs[r].state.offsetX, z))
        expectedY == RAdd(nodeViewportY, graphToScreen(regs[r].state.offsetY, z))
        actualX == ParsePx(StyleLeft(regs[r].el))
        actualY == ParsePx(StyleTop(regs[r].el))
        dx == RSub(actualX, expectedX)
        dy == RSub(actualY, expectedY)
    IN Fold(regs[r].state, dx, dy, z)

\* updatePosition, lines 252-277: the per-panel positioner, which nothing calls
updatePosition(r) ==
    [els EXCEPT ![regs[r].el] = Written(@, Update(r, zoom, getContainerRect(r)))]

\* the elements after a detector tick: pollForDrag writes no style
TickElsUpdatePosition(r) == updatePosition(r)

TickEls(r) == els

\* one firing of the interval timer of registration r
Tick(r) ==
    /\ r \in live.interval
    /\ regs' = [regs EXCEPT ![r].state = pollForDrag(r),
                            ![r].cachedContainerRect = getContainerRect(r),
                            ![r].rectAge = IF @ > CacheStaleMs THEN 0 ELSE @]
    /\ drag' = IF drag.phase = "set" /\ r \in TrackerOf(drag.el)
               THEN [drag EXCEPT !.phase = "ticked"] ELSE drag
    /\ tick' = IF pollForDrag(r) # regs[r].state
               THEN [reg |-> r, changed |-> TRUE, setBy |-> els[regs[r].el].setBy]
               ELSE NoTick
    /\ pass' = NoPass
    /\ els' = TickEls(r)
    /\ UNCHANGED <<trackingMap, live, roQueue, schedVars, geoVars, geoChanges,
                   reqVars, midCycle>>

RECURSIVE closureCleanupEach(_, _)
closureCleanupEach(L, rs) ==
    IF rs = {} THEN L
    ELSE LET r == CHOOSE x \in rs : TRUE
         IN closureCleanupEach(closureCleanup(L, r), rs \ {r})

\* element e leaves the document; the removal observers are called back
\* (lines 315-319) and those whose element is gone run the closure cleanup
DomRemove(e) ==
    /\ els[e].inDoc
    /\ LET gone == {r \in live.mutation : regs[r].el = e}
       IN /\ live' = closureCleanupEach(live, gone)
          /\ roQueue' = roQueue \cap live'.resize
          /\ trackingMap' = [i \in Instances |-> [id \in TerminalIds |->
                               IF \E r \in gone : regs[r].inst = i /\ regs[r].id = id
                               THEN NoReg ELSE trackingMap[i][id]]]
          /\ regs' = TornDown(regs, gone, "removal")
          /\ midCycle' = MidCycleAfter(gone)
          /\ drag' = DragWithout(gone)
    /\ els' = [els EXCEPT ![e].inDoc = FALSE]
    /\ Other
    /\ UNCHANGED <<schedVars, geoVars, geoChanges, reqVars>>

\* one detector period elapses
RectAgeCap == 2 * DragPollMs

AdvanceTime ==
    /\ \E r \in live.interval : regs[r].rectAge < RectAgeCap
    /\ regs' = [r \in DOMAIN regs |->
                  IF r \in live.interval
                  THEN [regs[r] EXCEPT !.rectAge = Min(@ + DragPollMs, RectAgeCap)]
                  ELSE regs[r]]
    /\ Other
    /\ UNCHANGED <<trackingMap, live, roQueue, schedVars, geoVars, els, geoChanges,
                   reqVars, midCycle, drag>>

(***************************************************************************)
(* The environment: graph, container and user                              *)
(***************************************************************************)
InstsOf(rs) == {regs[r].inst : r \in rs}

\* a geometry change ends the following of an external move
DragAfterGeoChange == IF drag.phase \in {"set", "ticked"} THEN NoDrag ELSE drag

\* cy 'viewport' event (zoom or pan): onGraphChange of every subscriber, lines 279-281
ViewportChange(z, p) ==
    /\ <<z, p>> # <<zoom, pan>>
    /\ zoom' = z
    /\ pan' = p
    /\ scheduleSharedUpdate(Cardinality(live.viewport), InstsOf(live.viewport))
    /\ geoChanges' = geoChanges + 1
    /\ drag' = DragAfterGeoChange
    /\ Other
    /\ UNCHANGED <<progVars, nodePos, containerRect, els, midCycle>>

\* node 'position' event: onGraphChange of every subscriber of that node
NodeMove(n, pos) ==
    /\ pos # nodePos[n]
    /\ nodePos' = [nodePos EXCEPT ![n] = pos]
    /\ LET subs == {r \in live.position : regs[r].node = n}
       IN scheduleSharedUpdate(Cardinality(subs), InstsOf(subs))
    /\ regs' = [r \in DOMAIN regs |->
                  IF regs[r].node = n THEN [regs[r] EXCEPT !.disturbed = TRUE] ELSE regs[r]]
    /\ geoChanges' = geoChanges + 1
    /\ drag' = DragAfterGeoChange
    /\ Other
    /\ UNCHANGED <<trackingMap, live, roQueue, zoom, pan, containerRect, els, midCycle>>

\* the container moves in the viewport without changing size (the page scrolls, the
\* layout above it shifts): no observer is notified
ContainerMove(c) ==
    /\ c # containerRect
    /\ containerRect' = c
    /\ geoChanges' = geoChanges + 1
    /\ drag' = DragAfterGeoChange
    /\ Other
    /\ UNCHANGED <<progVars, schedVars, zoom, pan, nodePos, els, reqVars, midCycle>>

\* lines 334-337 and 342-345: the handler's cache refresh, for the registrations rs
RefreshRectWhenStale(rs, c) ==
    [r \in DOMAIN regs |->
        IF r \in rs /\ regs[r].rectAge > CacheStaleMs
        THEN [regs[r] EXCEPT !.cachedContainerRect = c, !.rectAge = 0]
        ELSE regs[r]]

RefreshRect(rs, c) ==
    [r \in DOMAIN regs |->
        IF r \in rs THEN [regs[r] EXCEPT !.cachedContainerRect = c, !.rectAge = 0]
        ELSE regs[r]]

\* the container's size changes (its rectangle becomes c, possibly at the same
\* left/top): containerResizeObserver of every registration, lines 333-338
ContainerResize(c) ==
    /\ live.containerResize # {}
    /\ containerRect' = c
    /\ regs' = RefreshRect(live.containerResize, c)
    /\ scheduleSharedUpdate(Cardinality(live.containerResize), InstsOf(live.containerResize))
    /\ geoChanges' = IF c # containerRect THEN geoChanges + 1 ELSE geoChanges
    /\ drag' = IF c # containerRect THEN DragAfterGeoChange ELSE drag
    /\ Other
    /\ UNCHANGED <<trackingMap, live, roQueue, zoom, pan, nodePos, els, midCycle>>

\* window 'resize' event: windowResizeHandler of every registration, lines 341-346
WindowResize(c) ==
    /\ live.windowResize # {}
    /\ containerRect' = c
    /\ regs' = RefreshRect(live.windowResize, c)
    /\ scheduleSharedUpdate(Cardinality(live.windowResize), InstsOf(live.windowResize))
    /\ geoChanges' = IF c # containerRect THEN geoChanges + 1 ELSE geoChanges
    /\ drag' = IF c # containerRect THEN DragAfterGeoChange ELSE drag
    /\ Other
    /\ UNCHANGED <<trackingMap, live, roQueue, zoom, pan, nodePos, els, midCycle>>

\* the position the state of registration r predicts for its panel now
Expected(r) == Update(r, zoom, containerRect)

\* something other than the positioner (the user's drag) sets style.left/top of e
ExternalMove(e, p) ==
    /\ els[e].inDoc
    /\ <<p.x, p.y>> # <<els[e].left, els[e].top>>
    /\ els' = [els EXCEPT ![e].left = p.x, ![e].top = p.y, ![e].setBy = "external"]
    /\ regs' = [r \in DOMAIN regs |->
                  IF regs[r].el = e THEN [regs[r] EXCEPT !.disturbed = TRUE] ELSE regs[r]]
    /\ drag' = IF \E r \in TrackerOf(e) :
                     \/ RAbsGt(RSub(p.x, Expected(r).x), threshold)
                     \/ RAbsGt(RSub(p.y, Expected(r).y), threshold)
               THEN [phase |-> "set", el |-> e, x |-> p.x, y |-> p.y]
               ELSE NoDrag
    /\ geoChanges' = geoChanges + 1
    /\ Other
    /\ UNCHANGED <<trackingMap, live, roQueue, schedVars, geoVars, reqVars, midCycle>>

\* something other than the positioner (the user, the panel's content) changes the
\* size of e: its size-change observers have a notification to deliver
ExternalResize(e, size) ==
    /\ els[e].inDoc
    /\ <<size.width, size.height>> # <<els[e].width, els[e].height>>
    /\ els' = [els EXCEPT ![e].width = size.width, ![e].height = size.height]
    /\ roQueue' = roQueue \cup {r \in live.resize : regs[r].el = e}
    /\ regs' = [r \in DOMAIN regs |->
                  IF regs[r].el = e THEN [regs[r] EXCEPT !.extResized = TRUE] ELSE regs[r]]
    /\ geoChanges' = geoChanges + 1
    /\ Other
    /\ UNCHANGED <<trackingMap, live, schedVars, geoVars, reqVars, midCycle, drag>>

\* One rendering step of the host with no frame callback registered: the
\* size-change observers are told of the sizes that changed
Render ==
    /\ rafCallbacks = 0
    /\ roQueue # {}
    /\ regs' = resizeObserver(regs, roQueue, els)
    /\ roQueue' = {}
    /\ Other
    /\ UNCHANGED <<trackingMap, live, schedVars, geoVars, els, geoChanges, reqVars,
                   midCycle, drag>>

\* the size-change observer's callback, lines 307-313, run when cy.zoom() is z
resizeObserverAt(rs, obs, newEls, z) ==
    [r \in DOMAIN rs |->
        IF r \in obs
        THEN [rs[r] EXCEPT !.state.width = screenToGraph(newEls[rs[r].el].width, z),
                           !.state.height = screenToGraph(newEls[rs[r].el].height, z)]
        ELSE rs[r]]

\* One rendering step of the host in which a frame callback that runs after
\* sharedUpdate's (an animation step of the graph) changes the zoom to z:
\* sharedUpdate() runs at the old zoom; the zoom changes and onGraphChange of every
\* subscriber requests a pass (279-281); the layout is recomputed and the
\* size-change observers are told of the sizes the pass wrote, their callback
\* reading cy.zoom() as it is then (line 309).
FrameWithViewportChange(z) ==
    /\ rafCallbacks > 0
    /\ z # zoom
    /\ LET allEditors == AllEditors
           updates == [r \in allEditors |-> Update(r, zoom, containerRect)]
           newEls == [e \in Els |->
                        IF \E r \in allEditors : updates[r].popoverEl = e
                        THEN Written(els[e],
                                 updates[CHOOSE r \in allEditors : updates[r].popoverEl = e])
                        ELSE els[e]]
           resized == {r \in live.resize :
                          \/ newEls[regs[r].el].width # els[regs[r].el].width
                          \/ newEls[regs[r].el].height # els[regs[r].el].height}
           pendingAfter == PendingAfterPass(allEditors)
           n == Cardinality(live.viewport)
           registered == IF n > 0 /\ SchedRegisters(pendingAfter) THEN 1 ELSE 0
           afterPass == DragAfterPass(newEls)
       IN /\ els' = newEls
          /\ regs' = resizeObserverAt(regs, roQueue \cup resized, newEls, z)
          /\ roQueue' = {}
          /\ updatePending' = (pendingAfter \/ n > 0)
          /\ rafCallbacks' = rafCallbacks - 1 + registered
          /\ sharedRAFId' = IF registered > 0 THEN "handle" ELSE sharedRAFId
          /\ reqs' = Min(n, MaxReqs)
          /\ reqInsts' = InstsOf(live.viewport)
          /\ drag' = IF afterPass.phase \in {"set", "ticked"} THEN NoDrag ELSE afterPass
    /\ zoom' = z
    /\ geoChanges' = geoChanges + 1
    /\ midCycle' = {}
    /\ Other
    /\ UNCHANGED <<trackingMap, live, pan, nodePos, containerRect>>

(***************************************************************************)
(* Specification                                                           *)
(***************************************************************************)
\* a panel's element is its own: the elements in the document no other panel tracks
FreeEls(i, id) ==
    {e \in Els : els[e].inDoc /\ TrackerOf(e) \subseteq {trackingMap[i][id]}}

\* Lifecycle and scheduling: two instances, every source of schedule requests;
\* resize events change the container's size only; the elements that leave the
\* document are tracked ones
PinKeys == {<<1, "t1">>, <<1, "t2">>, <<2, "t1">>}

Next ==
    \/ \E k \in PinKeys, n \in Nodes :
          \E e \in FreeEls(k[1], k[2]) : pinHoverEditorToNode(k[1], k[2], n, e)
    \/ \E i \in Instances, id \in TerminalIds : Unpin(i, id)
    \/ \E i \in Instances : UnpinAll(i)
    \/ sharedUpdate
    \/ \E r \in DOMAIN regs : Tick(r)
    \/ \E e \in Els : TrackerOf(e) # {} /\ DomRemove(e)
    \/ \E z \in Zooms : geoChanges < MaxGraphChanges /\ ViewportChange(z, pan)
    \/ \E n \in Nodes, pos \in NodePositions :
          geoChanges < MaxGraphChanges /\ NodeMove(n, pos)
    \/ ContainerResize(containerRect)
    \/ WindowResize(containerRect)

Spec == Init /\ [][Next]_vars

\* Geometry: one panel, pinned once; every change of zoom, pan, node position,
\* container rectangle and panel position
GeoInstances == {1}
GeoTerminalIds == {"t1"}
GeoBudget == geoChanges < MaxGeoChanges

GeoNext ==
    \/ \E i \in GeoInstances, id \in GeoTerminalIds, n \in Nodes, e \in Els :
          regs = <<>> /\ pinHoverEditorToNode(i, id, n, e)
    \/ sharedUpdate
    \/ \E r \in DOMAIN regs : Tick(r)
    \/ AdvanceTime
    \/ \E z \in Zooms, p \in Pans : GeoBudget /\ ViewportChange(z, p)
    \/ \E n \in Nodes, pos \in NodePositions : GeoBudget /\ NodeMove(n, pos)
    \/ \E c \in ContainerRects : GeoBudget /\ ContainerMove(c)
    \/ \E c \in ContainerRects : (c # containerRect => GeoBudget) /\ ContainerResize(c)
    \/ \E c \in ContainerRects : (c # containerRect => GeoBudget) /\ WindowResize(c)
    \/ \E e \in Els, p \in DragTargets :
          TrackerOf(e) # {} /\ GeoBudget /\ ExternalMove(e, p)
    \/ \E e \in Els, size \in ResizeTargets :
          TrackerOf(e) # {} /\ GeoBudget /\ ExternalResize(e, size)
    \/ Render
    \/ \E z \in Zooms : GeoBudget /\ FrameWithViewportChange(z)

GeoSpec == Init /\ [][GeoNext]_vars

\* A registered frame callback runs: the steps that take one off the host's list
\* are the sharedUpdate steps, enabled exactly while one is registered
FrameCallback == rafCallbacks > 0 /\ rafCallbacks' = rafCallbacks - 1

\* The host runs a registered frame callback at its next rendering opportunity
\* (requestAnimationFrame, line 194)
LiveSpec == GeoSpec /\ WF_rafCallbacks(FrameCallback)

(***************************************************************************)
(* Properties                                                              *)
(***************************************************************************)
Keys == Instances \X TerminalIds

\* the registrations ever made for key k
KeyRegs(k) == {r \in DOMAIN regs : regs[r].inst = k[1] /\ regs[r].id = k[2]}

\* the registrations torn down by cleanup(terminalId): unpin, unpinAll, re-pin
Unpinned == {r \in DOMAIN regs : regs[r].tornDownBy = "cleanup"}

\* the registrations torn down by the removal observer
Removed == {r \in DOMAIN regs : regs[r].tornDownBy = "removal"}

\* C1 (batching coalescing): however many schedule requests are made before the
\* frame callback runs, exactly one frame callback is registered for them, and the
\* one pass it runs leaves none registered; with a panel tracked the pass is one
\* read phase followed by one write phase.
C1_Coalescing ==
    /\ rafCallbacks <= 1
    /\ (reqs >= 1) <=> (rafCallbacks = 1)
    /\ reqs >= 1 => updatePending
    /\ pass.ran => /\ rafCallbacks = 0
                   /\ TrackedRegs # {} => pass.log = <<"read", "write">>

\* a pass has served two or more schedule requests with one read and one write phase
C1_Witness ==
    pass.ran /\ pass.served >= 2 /\ pass.log = <<"read", "write">> /\ rafCallbacks = 0

\* C2 (teardown completeness): a batched pass never writes the element of a
\* registration that cleanup(id) tore down (unless the element has been pinned
\* again), whether the pass was requested before the unpin or after it.
C2_TeardownComplete ==
    pass.ran =>
        \A r \in Unpinned :
            TrackerOf(regs[r].el) = {} => regs[r].el \notin pass.writes

\* a pass that was pending when a panel was unpinned has run and written the other
\* panel, not the unpinned one
C2_Witness ==
    /\ pass.ran
    /\ pass.writes # {}
    /\ \E r \in pass.removed \cap Unpinned :
          TrackerOf(regs[r].el) = {} /\ regs[r].el \notin pass.writes

\* C3 (removal-triggered teardown is complete), as claimed: a registration torn
\* down by the removal observer has no live listener, observer or timer left.
C3_RemovalTeardownComplete ==
    \A r \in Removed : LiveOf(live, r) = {}

\* C4 (cancellation on unpin): a registration torn down by cleanup(id) has no live
\* timer, observer, listener or subscription and no undelivered notification, so
\* none of its callbacks can run again (a callback runs only while it is live).
C4_Cancellation ==
    \A r \in Unpinned :
        /\ LiveOf(live, r) = {}
        /\ r \notin roQueue

\* a panel has been unpinned (and not pinned again) while a pass was pending
C4_Witness ==
    \E r \in Unpinned :
        /\ trackingMap[regs[r].inst][regs[r].id] = NoReg
        /\ updatePending

\* C5 (idempotent re-pin): among the registrations made for an identifier, leaving
\* aside those the removal observer ended, each kind of listener, observer and
\* timer is live for exactly the registration now tracked, and for none when the
\* identifier is not tracked: a re-pin leaves nothing of the registration it replaces.
C5_IdempotentRePin ==
    \A k \in Keys :
        \A kind \in Kinds :
            {r \in KeyRegs(k) \ Removed : r \in live[kind]}
                = {trackingMap[k[1]][k[2]]} \ {NoReg}

\* an identifier has been pinned twice in a row and is tracked
C5_Witness ==
    \E k \in Keys :
        /\ Cardinality(KeyRegs(k) \cap Unpinned) >= 1
        /\ KeyRegs(k) \cap Removed = {}
        /\ trackingMap[k[1]][k[2]] # NoReg
        /\ trackingMap[k[1]][k[2]] = Len(regs)
        /\ Len(regs) - 1 \in KeyRegs(k)

\* C6 (drag attribution), as claimed: after an external move beyond the threshold
\* and the next detector tick, with zoom, node box and container rectangle
\* unchanged, the following pass writes exactly the externally set left/top.
C6_DragReproduced ==
    drag.phase # "snapback"

\* C7 (divergence is attributed only to external manipulation), as claimed: a
\* detector tick of a tracked panel changes the offset only if something other than
\* the positioner set the panel's left/top last.
C7_OnlyExternalMovesFold ==
    (tick.changed /\ tick.reg \in TrackedRegs) => tick.setBy # "positioner"

\* C8 (zoom-invariance), as claimed: for a panel pinned at zoom z1 at screen offset
\* (dx, dy) from the node, with node and panel not moved since, a pass at another
\* zoom z2 places it at (dx*z2/z1, dy*z2/z1) from the node's viewport origin.
C8_ZoomInvariance ==
    pass.ran =>
        \A r \in TrackedRegs :
            (~regs[r].disturbed /\ zoom # regs[r].pinZoom) =>
                LET box == renderedBoundingBox(regs[r].node)
                    el == els[regs[r].el]
                IN /\ RSub(el.left, RAdd(containerRect.left, box.x1))
                        = RDiv(RMul(regs[r].pinOffX, zoom), regs[r].pinZoom)
                   /\ RSub(el.top, RAdd(containerRect.top, box.y1))
                        = RDiv(RMul(regs[r].pinOffY, zoom), regs[r].pinZoom)

\* C9 (one pass services every instance): the pass run for requests made by panels
\* of different instances is a single one, and it positions every panel that any
\* instance tracks.
C9_OnePassEveryInstance ==
    pass.ran =>
        /\ rafCallbacks = 0
        /\ \A k \in Keys :
              LET r == trackingMap[k[1]][k[2]]
              IN r # NoReg =>
                    /\ regs[r].el \in pass.writes
                    /\ els[regs[r].el].position = "fixed"
                    /\ els[regs[r].el].left = Expected(r).x
                    /\ els[regs[r].el].top = Expected(r).y

\* one pass has served requests from both instances, each of which tracks a panel
C9_Witness ==
    /\ pass.ran
    /\ pass.insts = Instances
    /\ \A i \in Instances : \E id \in TerminalIds : trackingMap[i][id] # NoReg

\* C10 (the pending flag is always cleared by the pass): every pass leaves
\* updatePending false and no frame callback registered, so the next request
\* registers one.
C10_PendingCleared ==
    /\ pass.ran => (~updatePending /\ rafCallbacks = 0)
    /\ reqs >= 1 => rafCallbacks >= 1

\* a pass has run with nothing tracked, its panels having been torn down after it
\* was requested
C10_Witness ==
    pass.ran /\ pass.removed # {} /\ TrackedRegs = {} /\ ~updatePending

\* the position, size and stacking style of element e
PanelStyle(e) ==
    <<els[e].position, els[e].left, els[e].top, els[e].width, els[e].height, els[e].zIndex>>

\* C11 (DOM writes happen only through the batched pass): a step that changes the
\* position, size or stacking style of an element is a batched pass; a step that
\* changes an offset (a detector tick) writes no element, requests no pass and
\* registers or removes nothing; a graph change leaves every EditorState as it was.
C11_WritesOnlyInPass ==
    [][/\ (\E e \in Els : PanelStyle(e)' # PanelStyle(e)) => pass'.ran
       /\ (\E r \in DOMAIN regs :
              \/ regs'[r].state.offsetX # regs[r].state.offsetX
              \/ regs'[r].state.offsetY # regs[r].state.offsetY)
          => /\ els' = els
             /\ UNCHANGED <<trackingMap, live, roQueue, schedVars>>
       /\ (zoom' # zoom \/ nodePos' # nodePos) =>
             \A r \in DOMAIN regs : regs'[r].state = regs[r].state]_vars

\* a detector tick has changed the state of a panel whose element no pass has
\* written yet: its style is still unset
C11_Witness ==
    /\ tick.changed
    /\ tick.reg \in TrackedRegs
    /\ els[regs[tick.reg].el].setBy = Unset
    /\ els[regs[tick.reg].el].position = ""

\* C12 (read/write separation): in the events of a batched pass every read (zoom,
\* container rectangle, each tracked panel's node box) comes before the first
\* write to any panel element.
C12_ReadsBeforeWrites ==
    pass.ran =>
        LET ev == PassEvents(pass.editors)
        IN /\ \A i, j \in 1..Len(ev) :
                 (ev[i].op = "write" /\ ev[j].op = "read") => j < i
           /\ \A r \in pass.editors :
                 /\ \E j \in 1..Len(ev) : ev[j] = [op |-> "read", of |-> regs[r].node]
                 /\ \E i \in 1..Len(ev) : ev[i] = [op |-> "write", of |-> regs[r].el]

\* a pass has read and written two panels
C12_Witness ==
    /\ pass.ran
    /\ Cardinality(pass.editors) = 2
    /\ Cardinality(pass.writes) = 2

\* C13 (container-resize invalidation): a container-resize or window-resize event
\* leaves every listening registration's cached rectangle equal to the container's
\* current one, whatever the age of the cache, with a pass requested; the rectangle
\* the next detector tick gets is the current one.
C13_ResizeInvalidatesCache ==
    [][(\E c \in ContainerRects : ContainerResize(c) \/ WindowResize(c)) =>
          /\ updatePending' /\ rafCallbacks' >= 1
          /\ \A r \in live.containerResize \cup live.windowResize :
                /\ regs'[r].cachedContainerRect = containerRect'
                /\ regs'[r].rectAge = 0
                /\ getContainerRect(r)' = containerRect']_vars

\* after the pin the only change of geometry was to the container's rectangle, a
\* resize handler has requested a pass on top of the pin's request, and the cache
\* holds the new rectangle
C13_Witness ==
    \E r \in TrackedRegs :
        /\ geoChanges = 1
        /\ containerRect # [left |-> R(0), top |-> R(0)]
        /\ regs[r].cachedContainerRect = containerRect
        /\ regs[r].rectAge = 0
        /\ reqs = 2
        /\ updatePending

\* C14 (unpin of an identifier that is not tracked is a silent no-op): cleanup(id)
\* for an id the instance does not track changes neither the tracking maps, nor
\* any registration's state, listeners, observers or timer, nor any element, nor
\* the pending flag and the registered frame callback.
C14_UnknownUnpinNoOp ==
    [][\A i \in Instances, id \in TerminalIds :
          (trackingMap[i][id] = NoReg /\ Unpin(i, id)) =>
              UNCHANGED <<trackingMap, regs, live, roQueue, els,
                          updatePending, sharedRAFId, rafCallbacks>>]_vars

\* an identifier that was unpinned is not tracked, while another panel is tracked,
\* fully registered, and a pass is pending
C14_Witness ==
    /\ \E k \in Keys :
          KeyRegs(k) \cap Unpinned # {} /\ trackingMap[k[1]][k[2]] = NoReg
    /\ \E r \in TrackedRegs : LiveOf(live, r) = Kinds
    /\ updatePending
    /\ rafCallbacks = 1

\* C15 (unpinAll unpins every identifier the instance tracks): after cleanupAll()
\* of instance i, i tracks nothing and no listener, observer or timer of the
\* registrations it tracked is live or queued; what the other instances track, and
\* every listener, observer and timer of theirs, is as before.
C15_UnpinAllComplete ==
    [][\A i \in Instances :
          UnpinAll(i) =>
              /\ \A id \in TerminalIds : trackingMap'[i][id] = NoReg
              /\ \A r \in EditorsOf(i) : LiveOf(live', r) = {} /\ r \notin roQueue'
              /\ \A j \in Instances \ {i} :
                    /\ trackingMap'[j] = trackingMap[j]
                    /\ \A r \in EditorsOf(j) :
                          /\ LiveOf(live', r) = LiveOf(live, r)
                          /\ LiveOf(live', r) = Kinds
                          /\ regs'[r] = regs[r]]_vars

\* an instance that had a panel tracks nothing and nothing of that panel is live,
\* while the other instance's panel is tracked and fully registered
C15_Witness ==
    \E i \in Instances :
        /\ EditorsOf(i) = {}
        /\ \E r \in Unpinned : regs[r].inst = i /\ LiveOf(live, r) = {}
        /\ \E j \in Instances \ {i} :
              \E r \in EditorsOf(j) : LiveOf(live, r) = Kinds

\* C16 (detector threshold): on a detector tick, with dx = actual left - expected x
\* and dy = actual top - expected y, the state is unchanged when |dx| <= 2 and
\* |dy| <= 2; otherwise offsetX grows by dx/zoom and offsetY by dy/zoom, both, also
\* on the axis within the threshold; width and height never change.
C16_DetectorThreshold ==
    [][\A r \in DOMAIN regs :
          Tick(r) =>
              LET st == regs[r].state
                  rect == IF regs[r].rectAge > 300 THEN containerRect
                          ELSE regs[r].cachedContainerRect
                  box == renderedBoundingBox(regs[r].node)
                  expectedX == RAdd(RAdd(rect.left, box.x1), RMul(st.offsetX, zoom))
                  expectedY == RAdd(RAdd(rect.top, box.y1), RMul(st.offsetY, zoom))
                  e == regs[r].el
                  dx == RSub(IF els[e].setBy = Unset THEN R(0) ELSE els[e].left, expectedX)
                  dy == RSub(IF els[e].setBy = Unset THEN R(0) ELSE els[e].top, expectedY)
                  within == ~RAbsGt(dx, 2) /\ ~RAbsGt(dy, 2)
              IN /\ regs'[r].state.width = st.width
                 /\ regs'[r].state.height = st.height
                 /\ within => regs'[r].state = st
                 /\ ~within => /\ regs'[r].state.offsetX = RAdd(st.offsetX, RDiv(dx, zoom))
                               /\ regs'[r].state.offsetY = RAdd(st.offsetY, RDiv(dy, zoom))]_vars

\* a tick has folded a move that went beyond the threshold on one axis only: the
\* offset on the other axis has moved too, by no more than the threshold
C16_Witness ==
    /\ tick.changed
    /\ tick.reg \in TrackedRegs
    /\ tick.setBy = "external"
    /\ geoChanges = 1
    /\ LET r == tick.reg
           d == RSub(graphToScreen(regs[r].state.offsetY, zoom), regs[r].pinOffY)
       IN /\ zoom = regs[r].pinZoom
          /\ d # R(0)
          /\ ~RAbsGt(d, threshold)

\* C17 (pin seeds the state from pin-time geometry): the registration a pin at zoom
\* z creates has offsetX = (panelLeft - (containerLeft + nodeBox.x1)) / z,
\* offsetY = (panelTop - (containerTop + nodeBox.y1)) / z, width = panelWidth / z
\* and height = 1.5 * panelHeight / z, all taken from the geometry at the pin.
C17_PinSeedsState ==
    [][Len(regs') = Len(regs) + 1 =>
          LET new == regs'[Len(regs')]
              e == new.el
              box == renderedBoundingBox(new.node)
          IN /\ new.state.offsetX
                   = RDiv(RSub(els[e].left, RAdd(containerRect.left, box.x1)), zoom)
             /\ new.state.offsetY
                   = RDiv(RSub(els[e].top, RAdd(containerRect.top, box.y1)), zoom)
             /\ new.state.width = RDiv(els[e].width, zoom)
             /\ new.state.height = RDiv(RMul(<<3, 2>>, els[e].height), zoom)]_vars

\* a panel of 40 x 20 pixels has been pinned at zoom 2, away from the origin
C17_Witness ==
    \E r \in TrackedRegs :
        /\ regs[r].pinZoom = R(2)
        /\ regs[r].pinOffX # R(0)
        /\ regs[r].state.offsetX = RDiv(regs[r].pinOffX, R(2))
        /\ regs[r].state.offsetY = RDiv(regs[r].pinOffY, R(2))
        /\ regs[r].state.width = R(20)
        /\ regs[r].state.height = R(15)

\* C18 (result of a batched pass): a pass leaves every panel tracked when it runs
\* with position fixed, left = containerLeft + nodeBox.x1 + offsetX * zoom,
\* top = containerTop + nodeBox.y1 + offsetY * zoom, width = width * zoom,
\* height = height * zoom and stacking order 1000, computed from the state, zoom,
\* container rectangle and node box of the moment it runs; no EditorState changes.
C18_PassResult ==
    [][pass'.ran =>
          /\ \A r \in TrackedRegs :
                LET st == regs[r].state
                    box == renderedBoundingBox(regs[r].node)
                    el == els'[regs[r].el]
                IN /\ el.position = "fixed"
                   /\ el.left = RAdd(RAdd(containerRect.left, box.x1), RMul(st.offsetX, zoom))
                   /\ el.top = RAdd(RAdd(containerRect.top, box.y1), RMul(st.offsetY, zoom))
                   /\ el.width = RMul(st.width, zoom)
                   /\ el.height = RMul(st.height, zoom)
                   /\ el.zIndex = "1000"
          /\ \A r \in DOMAIN regs : regs'[r].state = regs[r].state]_vars

\* a pass has run at a zoom other than the one its panel was pinned at, and the
\* panel has the size its state gives at the zoom of the pass
C18_Witness ==
    /\ pass.ran
    /\ \E r \in pass.editors :
          /\ zoom # regs[r].pinZoom
          /\ els[regs[r].el].width = graphToScreen(regs[r].state.width, zoom)
          /\ els[regs[r].el].width # graphToScreen(regs[r].state.width, regs[r].pinZoom)
          /\ els[regs[r].el].zIndex = "1000"

\* C19 (every schedule request is eventually served): whenever updatePending is
\* set, the host running the registered frame callback, updatePending becomes false
\* again; and a pass that served several requests, a graph change among them,
\* leaves every tracked panel where the changed graph puts it, with no further
\* frame callback registered.
C19_EventuallyServed ==
    /\ updatePending ~> ~updatePending
    /\ [](pass.ran /\ pass.served >= 2 =>
             /\ ~updatePending
             /\ rafCallbacks = 0
             /\ \A r \in TrackedRegs :
                   /\ els[regs[r].el].left = Expected(r).x
                   /\ els[regs[r].el].top = Expected(r).y)

\* a pass has served the request of a graph change made while it was pending
C19_Witness ==
    /\ pass.ran
    /\ pass.served >= 2
    /\ geoChanges >= 1
    /\ ~updatePending
    /\ \E r \in pass.editors :
          /\ (zoom # regs[r].pinZoom \/ regs[r].disturbed)
          /\ els[regs[r].el].left = Expected(r).x
          /\ els[regs[r].el].top = Expected(r).y

\* C20 (the size-change observer overwrites only the size): when a notification of
\* registration r is delivered, with the element's size (w, h) and the zoom z of
\* that moment, r's width becomes w / z and its height h / z, without the 1.5
\* factor, its offsets are unchanged, and the delivery requests no pass.
C20_ResizeOverwritesSize ==
    [][\A r \in roQueue \ roQueue' :
          /\ regs'[r].state.width = RDiv(els'[regs[r].el].width, zoom')
          /\ regs'[r].state.height = RDiv(els'[regs[r].el].height, zoom')
          /\ regs'[r].state.offsetX = regs[r].state.offsetX
          /\ regs'[r].state.offsetY = regs[r].state.offsetY
          /\ rafCallbacks' <= rafCallbacks
          /\ updatePending' => updatePending]_vars

\* a panel resized from outside to 50 x 24 pixels has had its notification
\* delivered: its state holds that size over the zoom, and no pass is requested
C20_Witness ==
    \E r \in TrackedRegs :
        /\ els[regs[r].el].width = R(50)
        /\ els[regs[r].el].height = R(24)
        /\ regs[r].state.width = RDiv(R(50), zoom)
        /\ regs[r].state.height = RDiv(R(24), zoom)
        /\ roQueue = {}
        /\ rafCallbacks = 0
        /\ ~updatePending

\* C21 (EditorState size is zoom-independent), as claimed: with no external resize
\* of its panel, a tracked registration's width and height are the model values
\* the pin gave them, whatever zoom changes, passes and size notifications
\* happened since.
C21_SizeZoomIndependent ==
    \A r \in TrackedRegs :
        ~regs[r].extResized =>
            /\ regs[r].state.width = regs[r].pinWidth
            /\ regs[r].state.height = regs[r].pinHeight

\* C22 (the first pass after pin reproduces the pin-time position), as claimed: a
\* pass that finds a tracked panel not yet written by the positioner, with no
\* change of graph, container or panel since the pin, writes the left/top the
\* panel had on screen at the pin, whether or not a detector tick came first.
C22_FirstPassReproducesPin ==
    [][pass'.ran =>
          \A r \in TrackedRegs :
              (els[regs[r].el].setBy # "positioner" /\ geoChanges = regs[r].pinGeo) =>
                  /\ els'[regs[r].el].left = regs[r].pinLeft
                  /\ els'[regs[r].el].top = regs[r].pinTop]_vars

\* C23 (the pending flag matches the outstanding frame callback): in every state
\* updatePending is true exactly when one frame callback is registered and has not
\* run, and never more than one is registered; a step in which cleanup(id) tears a
\* registration down (unpin, unpinAll) changes neither the flag nor the callback.
C23_PendingMatchesCallback ==
    /\ [](/\ rafCallbacks <= 1
          /\ updatePending <=> (rafCallbacks = 1)
          /\ updatePending => sharedRAFId = "handle")
    /\ [][(\E i \in Instances, id \in TerminalIds :
              /\ trackingMap[i][id] # NoReg
              /\ trackingMap'[i][id] = NoReg
              /\ regs'[trackingMap[i][id]].tornDownBy = "cleanup")
          => UNCHANGED <<updatePending, sharedRAFId, rafCallbacks>>]_vars

\* every panel has been unpinned while a pass was pending: the flag is still set
\* and the frame callback still registered
C23_Witness ==
    /\ updatePending
    /\ rafCallbacks = 1
    /\ sharedRAFId = "handle"
    /\ TrackedRegs = {}
    /\ midCycle \cap Unpinned # {}

====
